---- MODULE Spec2Model ----
(***************************************************************************)
(* Model of the wallet transfer component of src/src/b.js.  The file holds *)
(* two variants of the same React component App:                           *)
(*   "sdk"   - lines 1-225, MetaMask SDK (useSDK), with a connect handler  *)
(*   "modal" - lines 226-469, Web3Modal (open()), no connect handler       *)
(* The component state is the six useState slots; the wallet session is    *)
(* owned by the connector library and only observed.  Every handler is an  *)
(* async function: one action models the code that runs between two awaits *)
(* (from the click or the resolution of a promise up to the next await or  *)
(* the end of the handler, finally blocks included).                       *)
(***************************************************************************)
EXTENDS Integers, Sequences, FiniteSets, TLC

VARIABLES
    variant,        \* which of the two App components is mounted
    sdk,            \* useSDK().sdk is defined (variant "sdk")
    tokenDecimals,  \* what the token contract's decimals() returns
    session,        \* connector state observed by the component
    modalOpen,      \* the Web3Modal dialog is showing (variant "modal")
    bnbBalance, usdtBalance, loading, error, recipient, amount,
    sw,             \* the connect / switchToBNBChain call in flight
    transfers,      \* handleTransfer calls in flight
    fetches,        \* fetchBalances calls started by the effect, in flight
    reports,        \* how many sessions the connector's hook has reported
    last            \* what the last step did: operation, outcome, calls
                    \* issued, number of fetchBalances calls made (invoked)

vars == <<variant, sdk, tokenDecimals, session, modalOpen, bnbBalance,
          usdtBalance, loading, error, recipient, amount, sw, transfers,
          fetches, reports, last>>

(***************************************************************************)
(* Bounds of the model.                                                    *)
(***************************************************************************)
MaxTransfers == 2
\* the session reports of the connector's hook are an input of the component:
\* its runs are explored for every sequence of at most MaxReports reports
MaxReports == 1

(***************************************************************************)
(* Program constants.                                                      *)
(***************************************************************************)
BSC_CHAIN_ID == 56
ETHER_DECIMALS == 18
UNRECOGNIZED_CHAIN == 4902
USDT_ADDRESS == "0x55d398326f99059fF775485246999027B3197955"
USDT_ABI == <<"function balanceOf(address) view returns (uint256)",
              "function decimals() view returns (uint8)",
              "function transfer(address, uint256) returns (bool)">>

SwitchRequest ==
    [method |-> "wallet_switchEthereumChain",
     params |-> <<[chainId |-> "0x38"]>>]

AddRequest ==
    [method |-> "wallet_addEthereumChain",
     params |-> <<[chainId |-> "0x38",
                   chainName |-> "BNB Smart Chain",
                   nativeCurrency |-> [name |-> "BNB", symbol |-> "BNB",
                                       decimals |-> ETHER_DECIMALS],
                   rpcUrls |-> <<"https://bsc-dataseed.binance.org/">>,
                   blockExplorerUrls |-> <<"https://bscscan.com/">>]>>]

MsgValidation == "Please enter recipient address and amount"
MsgNoWallet == "Please connect your wallet"
MsgFetch == "Failed to fetch balances"
MsgSwitch == "Failed to switch network"
MsgAdd == "Failed to add BSC network"

(***************************************************************************)
(* The environment: what the wallet, the chain and the libraries answer.   *)
(***************************************************************************)
Variants == {"sdk", "modal"}
NoAccount == "null"
Accounts == {"0xA1", "0xB2"}
ChainIds == {BSC_CHAIN_ID, 1}
NoChain == 0
DecimalsSet == {6}
\* messages of the errors the wallet / RPC layer rejects with
RejectMsgs == {"user rejected action"}
\* codes a failed wallet_switchEthereumChain carries
SwitchCodes == {UNRECOGNIZED_CHAIN, 4001}
\* messages ethers throws synchronously
MsgInvalidProvider == "invalid EIP-1193 provider"
MsgInvalidNumber == "invalid FixedNumber string value"
MsgTooManyDecimals == "too many decimals for format"

Recipients == {"", "0xC3"}
Amounts == {"", "1.5", "1e2"}

\* the characters of the strings the amount input can hold
Chars(s) ==
    CASE s = "" -> <<>>
      [] s = "1.5" -> <<"1", ".", "5">>
      [] s = "1e2" -> <<"1", "e", "2">>

\* balances on chain, in base units, as decimal digits (they exceed 2^31)
Zeros(n) == [i \in 1..n |-> 0]
NativeOf(a) ==
    IF a = "0xA1" THEN <<1>> \o Zeros(18)          \* 1 BNB
    ELSE <<2, 5>> \o Zeros(17)                     \* 2.5 BNB
TokenOf(a) ==
    IF a = "0xA1" THEN <<1>> \o Zeros(6)           \* 10^6 base units
    ELSE <<0>>

(***************************************************************************)
(* ethers.formatUnits / formatEther / parseUnits, on digit sequences.      *)
(***************************************************************************)
DigitChar == <<"0", "1", "2", "3", "4", "5", "6", "7", "8", "9">>
IsDigit(c) == \E d \in 1..10 : DigitChar[d] = c
DigitOf(c) == (CHOOSE d \in 1..10 : DigitChar[d] = c) - 1

RECURSIVE DigitsToString(_)
DigitsToString(ds) ==
    IF ds = <<>> THEN "" ELSE DigitChar[Head(ds) + 1] \o DigitsToString(Tail(ds))

\* leading zeros removed, one digit kept (BigInt of a digit string)
RECURSIVE StripLeading(_)
StripLeading(ds) ==
    IF Len(ds) > 1 /\ Head(ds) = 0 THEN StripLeading(Tail(ds)) ELSE ds

\* trailing zeros removed, one digit kept
RECURSIVE StripTrailing(_)
StripTrailing(ds) ==
    IF Len(ds) > 1 /\ ds[Len(ds)] = 0
    THEN StripTrailing(SubSeq(ds, 1, Len(ds) - 1)) ELSE ds

\* value: digits of a non-negative integer; result: the decimal string
FormatUnits(value, decimals) ==
    IF decimals = 0 THEN DigitsToString(value)
    ELSE LET padded == IF Len(value) <= decimals
                       THEN Zeros(decimals + 1 - Len(value)) \o value
                       ELSE value
             index == Len(padded) - decimals
             whole == StripLeading(SubSeq(padded, 1, index))
             frac == StripTrailing(SubSeq(padded, index + 1, Len(padded)))
         IN DigitsToString(whole) \o "." \o DigitsToString(frac)

FormatEther(value) == FormatUnits(value, ETHER_DECIMALS)

\* position of the first character of cs that is not a digit, Len+1 if none
RECURSIVE DigitRun(_, _)
DigitRun(cs, i) ==
    IF i > Len(cs) \/ ~IsDigit(cs[i]) THEN i ELSE DigitRun(cs, i + 1)

\* the string as /^([0-9]*)\.?([0-9]*)$/ splits it, the base units it denotes
ParseUnits(str, decimals) ==
    LET cs == Chars(str)
        w == DigitRun(cs, 1)
        afterDot == IF w <= Len(cs) /\ cs[w] = "." THEN w + 1 ELSE w
        f == DigitRun(cs, afterDot)
        whole == [i \in 1..(w - 1) |-> DigitOf(cs[i])]
        frac == [i \in 1..(f - afterDot) |-> DigitOf(cs[afterDot + i - 1])]
        padded == IF Len(frac) < decimals
                  THEN frac \o Zeros(decimals - Len(frac)) ELSE frac
        extra == SubSeq(padded, decimals + 1, Len(padded))
    IN IF f <= Len(cs) \/ Len(whole) + Len(frac) = 0
       THEN [ok |-> FALSE, message |-> MsgInvalidNumber]
       ELSE IF \E i \in 1..Len(extra) : extra[i] # 0
       THEN [ok |-> FALSE, message |-> MsgTooManyDecimals]
       ELSE [ok |-> TRUE,
             value |-> StripLeading((IF whole = <<>> THEN <<0>> ELSE whole)
                                    \o SubSeq(padded, 1, decimals))]

(***************************************************************************)
(* The session the connector library reports (useSDK, useWeb3ModalAccount). *)
(***************************************************************************)
Disconnected(connecting, provider) ==
    [connected |-> FALSE, connecting |-> connecting, account |-> NoAccount,
     chainId |-> NoChain, provider |-> provider]

Connected(account, chainId, provider) ==
    [connected |-> TRUE, connecting |-> FALSE, account |-> account,
     chainId |-> chainId, provider |-> provider]

\* the sessions the library can report to the mounted variant: disconnected
\* (useSDK keeps its provider handle, useWeb3ModalProvider has none), and
\* connected on either chain, with or without the account and the provider
\* handle reported
Sessions ==
    IF variant = "sdk" /\ ~sdk THEN {Disconnected(FALSE, FALSE)}
    ELSE {Disconnected(c, variant = "sdk") :
              c \in (IF variant = "sdk" THEN BOOLEAN ELSE {FALSE})}
         \cup {Connected(a, c, p) : a \in Accounts \cup {NoAccount},
                                    c \in ChainIds, p \in BOOLEAN}

Remove(seq, i) == SubSeq(seq, 1, i - 1) \o SubSeq(seq, i + 1, Len(seq))

\* the fetchBalances calls in flight are unordered: they are kept as a
\* sequence ordered by account, position and flag
FetchKey(f) ==
    ((IF f.account = "0xA1" THEN 0 ELSE 1) * 3
     + (CASE f.pc = "getBalance" -> 0 [] f.pc = "decimals" -> 1
          [] OTHER -> 2)) * 2
    + (IF f.wrote THEN 1 ELSE 0)

RECURSIVE Insert(_, _)
Insert(seq, f) ==
    IF seq = <<>> \/ FetchKey(f) <= FetchKey(Head(seq))
    THEN <<f>> \o seq
    ELSE <<Head(seq)>> \o Insert(Tail(seq), f)

IdleSw == [pc |-> "idle", provider |-> FALSE, caller |-> "none",
           established |-> FALSE, reqs |-> <<>>]

NoFetch == [pc |-> "none", account |-> NoAccount]

\* a handler is resuming after an await of nothing pending (no sdk, no
\* provider, a call that has already returned): its continuation is queued
\* and runs before the next event of the user or the wallet is handled
Resuming ==
    \/ sw.pc \in {"noProvider", "returned"}
    \/ sw.pc = "sdkConnect" /\ ~sdk
    \/ \E i \in 1..Len(transfers) :
          transfers[i].pc = "refresh" /\ transfers[i].fetch.pc = "none"

Init ==
    /\ variant \in Variants
    /\ sdk \in (IF variant = "sdk" THEN BOOLEAN ELSE {FALSE})
    /\ tokenDecimals \in DecimalsSet
    /\ session = Disconnected(FALSE, variant = "sdk" /\ sdk)
    /\ modalOpen = FALSE
    /\ bnbBalance = "0"
    /\ usdtBalance = "0"
    /\ loading = FALSE
    /\ error = ""
    /\ recipient = ""
    /\ amount = ""
    /\ sw = IdleSw
    /\ transfers = <<>>
    /\ fetches = <<>>
    /\ reports = 0
    /\ last = [op |-> "mount", invoked |-> 0, result |-> "ok", calls |-> <<>>]

(***************************************************************************)
(* fetchBalances.  s is the render whose closure the call runs in.         *)
(***************************************************************************)
fetchBalancesGuard(s) ==
    IF variant = "sdk"
    THEN s.account # NoAccount /\ s.provider
    ELSE s.connected /\ s.provider /\ s.account # NoAccount

\* the call up to its first await: the fetch now in flight, or NoFetch
fetchBalances(s) ==
    IF fetchBalancesGuard(s)
    THEN [pc |-> "getBalance", account |-> s.account]
    ELSE NoFetch

StartCalls(f) == IF f.pc = "none" THEN <<>> ELSE <<"getBalance">>

\* the read fetch f awaits has returned: what the code does up to the next
\* await or the end of fetchBalances
FetchResolved(f) ==
    CASE f.pc = "getBalance" ->
           LET shown == FormatEther(NativeOf(f.account))
           IN [f |-> [f EXCEPT !.pc = "decimals"],
               bnb |-> shown, usdt |-> usdtBalance, error |-> error,
               calls |-> <<"decimals">>]
      [] f.pc = "decimals" ->
           [f |-> [f EXCEPT !.pc = "balanceOf"],
            bnb |-> bnbBalance, usdt |-> usdtBalance, error |-> error,
            calls |-> <<"balanceOf">>]
      [] f.pc = "balanceOf" ->
           [f |-> [f EXCEPT !.pc = "none"],
            bnb |-> bnbBalance,
            usdt |-> FormatUnits(TokenOf(f.account), tokenDecimals),
            error |-> error, calls |-> <<>>]

\* an empty catch block
FetchRejectedSilent(f) ==
    [f |-> [f EXCEPT !.pc = "none"], bnb |-> bnbBalance, usdt |-> usdtBalance,
     error |-> error, calls |-> <<>>]

\* the read fetch f awaits has thrown: the catch block
FetchRejected(f) ==
    [f |-> [f EXCEPT !.pc = "none"], bnb |-> bnbBalance, usdt |-> usdtBalance,
     error |-> MsgFetch, calls |-> <<>>]

FetchOutcome(f, ok) == IF ok THEN FetchResolved(f) ELSE FetchRejected(f)

(***************************************************************************)
(* useEffect(..., [connected, account, chainId]): runs after a render in   *)
(* which one of the three changed, with that render's closure.             *)
(***************************************************************************)
\* chainId left out of the dependency list
DepsChangedNoChain(old, new) ==
    \/ old.connected # new.connected
    \/ old.account # new.account

DepsChanged(old, new) ==
    \/ old.connected # new.connected
    \/ old.account # new.account
    \/ old.chainId # new.chainId

\* the fetch the effect starts when the session goes from old to new
Effect(old, new) ==
    IF DepsChanged(old, new) /\ new.connected /\ new.account # NoAccount
    THEN fetchBalances(new)
    ELSE NoFetch

\* how many times the effect calls fetchBalances after that render
EffectCalls(old, new) ==
    IF DepsChanged(old, new) /\ new.connected /\ new.account # NoAccount
    THEN 1 ELSE 0

\* the session becomes new: re-render, then the effect
Render(new) ==
    LET f == Effect(session, new)
    IN /\ session' = new
       /\ fetches' = IF f.pc = "none" THEN fetches
                     ELSE Insert(fetches, [pc |-> f.pc, account |-> f.account,
                                           wrote |-> FALSE])

\* the hook reports another session: the wallet or the connector has
\* changed it
SessionChange ==
    \E new \in Sessions :
        /\ new # session
        /\ ~Resuming
        /\ reports < MaxReports
        /\ reports' = reports + 1
        /\ Render(new)
        /\ last' = [op |-> "session", invoked |-> EffectCalls(session, new),
                    result |-> "changed",
                    calls |-> StartCalls(Effect(session, new))]
        /\ UNCHANGED <<variant, sdk, tokenDecimals, modalOpen, bnbBalance,
                       usdtBalance, loading, error, recipient, amount, sw,
                       transfers>>

\* a read of a fetch started by the effect returns or throws; wrote records
\* that the fetch has changed a displayed balance
FetchStep ==
    \E i \in 1..Len(fetches), ok \in BOOLEAN :
        LET o == FetchOutcome(fetches[i], ok)
            wrote == \/ fetches[i].wrote
                     \/ o.bnb # bnbBalance
                     \/ o.usdt # usdtBalance
        IN /\ bnbBalance' = o.bnb
           /\ usdtBalance' = o.usdt
           /\ error' = o.error
           /\ fetches' = IF o.f.pc = "none" THEN Remove(fetches, i)
                         ELSE Insert(Remove(fetches, i),
                                     [o.f EXCEPT !.wrote = wrote])
           /\ last' = [op |-> "fetchBalances", invoked |-> 0,
                       result |-> IF ~ok THEN "failed"
                                  ELSE IF o.f.pc = "none" THEN "ok"
                                  ELSE "pending",
                       calls |-> o.calls,
                       read |-> fetches[i].pc,
                       account |-> fetches[i].account,
                       wrote |-> wrote]
           /\ UNCHANGED <<reports, variant, sdk, tokenDecimals, session, modalOpen,
                          loading, recipient, amount, sw, transfers>>

\* onChange of the two inputs
EditRecipient ==
    \E r \in Recipients :
        /\ session.connected
        /\ ~Resuming
        /\ r # recipient
        /\ recipient' = r
        /\ last' = [op |-> "edit", invoked |-> 0,
                    result |-> "ok", calls |-> <<>>]
        /\ UNCHANGED <<reports, variant, sdk, tokenDecimals, session, modalOpen,
                       bnbBalance, usdtBalance, loading, error, amount, sw,
                       transfers, fetches>>

EditAmount ==
    \E a \in Amounts :
        /\ session.connected
        /\ ~Resuming
        /\ a # amount
        /\ amount' = a
        /\ last' = [op |-> "edit", invoked |-> 0,
                    result |-> "ok", calls |-> <<>>]
        /\ UNCHANGED <<reports, variant, sdk, tokenDecimals, session, modalOpen,
                       bnbBalance, usdtBalance, loading, error, recipient, sw,
                       transfers, fetches>>

(***************************************************************************)
(* connect and switchToBNBChain.                                           *)
(***************************************************************************)
\* the connect button is rendered and enabled
ConnectEnabled ==
    /\ ~session.connected
    /\ ~(IF variant = "sdk" THEN session.connecting \/ loading ELSE loading)

\* err.code never compared equal to 4902
OnSwitchErrorNeverAdds(code) == "fail"

\* the registration attempted whatever the code
OnSwitchErrorAlwaysAdds(code) == "add"

\* catch (err) of switchToBNBChain: what a failed switch request leads to
OnSwitchError(code) == IF code = UNRECOGNIZED_CHAIN THEN "add" ELSE "fail"

\* switchToBNBChain returns for the call task c: connect resumes after its
\* await switchToBNBChain() in a later continuation
SwReturns(c) ==
    /\ sw' = [c EXCEPT !.pc = "returned"]
    /\ UNCHANGED loading

\* switchToBNBChain is entered by the call task c with provider handle p, up
\* to its first await: the request, or await provider?.request(...) of no
\* provider
SwEnters(c, p, effectCalls, n) ==
    /\ sw' = IF p THEN [c EXCEPT !.pc = "switch", !.reqs = <<SwitchRequest>>]
             ELSE [c EXCEPT !.pc = "noProvider"]
    /\ UNCHANGED loading
    /\ last' = [op |-> "switchToBNBChain", invoked |-> n,
                result |-> "pending",
                calls |-> effectCalls
                          \o (IF p THEN <<SwitchRequest.method>> ELSE <<>>),
                reqs |-> IF p THEN <<SwitchRequest>> ELSE <<>>, code |-> 0,
                caller |-> c.caller, established |-> c.established]

\* onClick of the connect button, variant "sdk", up to await sdk?.connect()
connect ==
    /\ variant = "sdk"
    /\ ConnectEnabled
    /\ sw.pc = "idle"
    /\ loading' = TRUE
    /\ error' = ""
    /\ sw' = [pc |-> "sdkConnect", provider |-> session.provider,
              caller |-> "connect", established |-> FALSE, reqs |-> <<>>]
    /\ last' = [op |-> "connect", invoked |-> 0, result |-> "pending",
                calls |-> IF sdk THEN <<"sdk.connect">> ELSE <<>>]
    /\ UNCHANGED <<reports, variant, sdk, tokenDecimals, session, modalOpen, bnbBalance,
                   usdtBalance, recipient, amount, transfers, fetches>>

\* await sdk?.connect() resumes: sdk.connect() has resolved and the session
\* is established, or there was no sdk to call; then switchToBNBChain
sdkConnectResolved ==
    /\ sw.pc = "sdkConnect"
    /\ \E a \in Accounts, c \in ChainIds :
          LET new == IF session.connected \/ ~sdk THEN session
                     ELSE Connected(a, c, TRUE)
          IN /\ Render(new)
             /\ SwEnters([sw EXCEPT !.established = sdk], sw.provider,
                         StartCalls(Effect(session, new)),
                         EffectCalls(session, new))
    /\ UNCHANGED <<reports, variant, sdk, tokenDecimals, modalOpen, bnbBalance,
                   usdtBalance, error, recipient, amount, transfers>>

\* sdk.connect() rejects: catch and finally of connect
sdkConnectRejected ==
    /\ sw.pc = "sdkConnect"
    /\ sdk
    /\ \E msg \in RejectMsgs :
          /\ error' = msg
          /\ last' = [op |-> "connect", invoked |-> 0,
                      result |-> "failed", calls |-> <<>>]
    /\ loading' = FALSE
    /\ sw' = IdleSw
    /\ UNCHANGED <<reports, variant, sdk, tokenDecimals, session, modalOpen, bnbBalance,
                   usdtBalance, recipient, amount, transfers, fetches>>

\* await provider?.request(...) of no provider resumes: switchToBNBChain
\* has made no request and returns
switchSkipped ==
    /\ sw.pc = "noProvider"
    /\ SwReturns(sw)
    /\ last' = [op |-> "switchToBNBChain", invoked |-> 0,
                result |-> "skipped", calls |-> <<>>, reqs |-> <<>>,
                code |-> 0, caller |-> sw.caller,
                established |-> sw.established]
    /\ UNCHANGED <<reports, variant, sdk, tokenDecimals, session, modalOpen, bnbBalance,
                   usdtBalance, error, recipient, amount, transfers, fetches>>

\* connect without its finally block
ConnectFinallyKeepsLoading == loading

\* finally { setLoading(false) } of connect
ConnectFinally == FALSE

\* await switchToBNBChain() resumes in connect: the try block ends, finally
connectFinally ==
    /\ sw.pc = "returned"
    /\ loading' = ConnectFinally
    /\ sw' = IdleSw
    /\ last' = [op |-> "connect", invoked |-> 0, result |-> "done",
                calls |-> <<>>]
    /\ UNCHANGED <<reports, variant, sdk, tokenDecimals, session, modalOpen, bnbBalance,
                   usdtBalance, error, recipient, amount, transfers, fetches>>

\* the wallet_switchEthereumChain request resolves: switchToBNBChain returns
\* (the chain the session is on is what the hook reports, before or after)
switchResolved ==
    /\ sw.pc = "switch"
    /\ SwReturns(sw)
    /\ last' = [op |-> "switchToBNBChain", invoked |-> 0, result |-> "ok",
                calls |-> <<>>, reqs |-> sw.reqs, code |-> 0,
                caller |-> sw.caller, established |-> sw.established]
    /\ UNCHANGED <<reports, variant, sdk, tokenDecimals, session, modalOpen,
                   bnbBalance, usdtBalance, error, recipient, amount,
                   transfers, fetches>>

\* the wallet_switchEthereumChain request rejects with err.code = code
switchRejected ==
    /\ sw.pc = "switch"
    /\ \E code \in SwitchCodes :
          IF OnSwitchError(code) = "add"
          THEN /\ sw' = [sw EXCEPT !.pc = "add",
                                   !.reqs = Append(sw.reqs, AddRequest)]
               /\ last' = [op |-> "switchToBNBChain", invoked |-> 0,
                           result |-> "pending",
                           calls |-> <<AddRequest.method>>,
                           reqs |-> Append(sw.reqs, AddRequest),
                           code |-> code, caller |-> sw.caller,
                           established |-> sw.established]
               /\ UNCHANGED <<error, loading>>
          ELSE /\ error' = MsgSwitch
               /\ SwReturns(sw)
               /\ last' = [op |-> "switchToBNBChain", invoked |-> 0,
                           result |-> "switchFailed", calls |-> <<>>,
                           reqs |-> sw.reqs, code |-> code,
                           caller |-> sw.caller,
                           established |-> sw.established]
    /\ UNCHANGED <<reports, variant, sdk, tokenDecimals, session, modalOpen, bnbBalance,
                   usdtBalance, recipient, amount, transfers, fetches>>

\* the wallet_addEthereumChain request resolves: switchToBNBChain returns
addResolved ==
    /\ sw.pc = "add"
    /\ SwReturns(sw)
    /\ last' = [op |-> "switchToBNBChain", invoked |-> 0, result |-> "ok",
                calls |-> <<>>, reqs |-> sw.reqs, code |-> UNRECOGNIZED_CHAIN,
                caller |-> sw.caller, established |-> sw.established]
    /\ UNCHANGED <<reports, variant, sdk, tokenDecimals, session, modalOpen,
                   bnbBalance, usdtBalance, error, recipient, amount,
                   transfers, fetches>>

\* the wallet_addEthereumChain request rejects: catch (addError)
addRejected ==
    /\ sw.pc = "add"
    /\ error' = MsgAdd
    /\ SwReturns(sw)
    /\ last' = [op |-> "switchToBNBChain", invoked |-> 0,
                result |-> "addFailed",
                calls |-> <<>>, reqs |-> sw.reqs,
                code |-> UNRECOGNIZED_CHAIN, caller |-> sw.caller,
                established |-> sw.established]
    /\ UNCHANGED <<reports, variant, sdk, tokenDecimals, session, modalOpen, bnbBalance,
                   usdtBalance, recipient, amount, transfers, fetches>>

\* onClick of the connect button, variant "modal": open()
open ==
    /\ variant = "modal"
    /\ ConnectEnabled
    /\ ~modalOpen
    /\ modalOpen' = TRUE
    /\ last' = [op |-> "open", invoked |-> 0,
                result |-> "pending", calls |-> <<"open">>]
    /\ UNCHANGED <<reports, variant, sdk, tokenDecimals, session, bnbBalance,
                   usdtBalance, loading, error, recipient, amount, sw,
                   transfers, fetches>>

\* open() rejects: onClick={() => open()} has no handler for it
openRejected ==
    /\ variant = "modal"
    /\ ConnectEnabled
    /\ ~modalOpen
    /\ last' = [op |-> "open", invoked |-> 0, result |-> "failed",
                calls |-> <<"open">>]
    /\ UNCHANGED <<reports, variant, sdk, tokenDecimals, session, modalOpen, bnbBalance,
                   usdtBalance, loading, error, recipient, amount, sw,
                   transfers, fetches>>

\* the user picks a wallet in the dialog: the library establishes the session
modalConnected ==
    /\ modalOpen
    /\ ~session.connected
    /\ \E a \in Accounts, c \in ChainIds :
          /\ Render(Connected(a, c, TRUE))
          /\ last' = [op |-> "open",
                      invoked |-> EffectCalls(session, Connected(a, c, TRUE)),
                      result |-> "connected",
                      calls |-> StartCalls(Effect(session,
                                                  Connected(a, c, TRUE))),
                      reqs |-> <<>>]
    /\ modalOpen' = FALSE
    /\ UNCHANGED <<reports, variant, sdk, tokenDecimals, bnbBalance, usdtBalance,
                   loading, error, recipient, amount, sw, transfers>>

\* the user dismisses the dialog
modalClosed ==
    /\ modalOpen
    /\ modalOpen' = FALSE
    /\ last' = [op |-> "open", invoked |-> 0,
                result |-> IF session.connected THEN "dismissed"
                           ELSE "closed",
                calls |-> <<>>]
    /\ UNCHANGED <<reports, variant, sdk, tokenDecimals, session, bnbBalance,
                   usdtBalance, loading, error, recipient, amount, sw,
                   transfers, fetches>>

(***************************************************************************)
(* handleTransfer.                                                         *)
(***************************************************************************)
\* the check written with && for ||: one empty field passes
ValidInputEitherField(r, a) == r # "" \/ a # ""

\* if (!recipient || !amount) is not taken
ValidInput(r, a) == r # "" /\ a # ""

\* the submit button never disabled
SubmitNeverDisabled == FALSE

\* disabled={loading} of the submit button
SubmitDisabled == loading

\* setAmount('') left out
FormAfterSuccessKeepsAmount == [recipient |-> "", amount |-> amount]

\* the two inputs after setRecipient('') and setAmount('')
FormAfterSuccess == [recipient |-> "", amount |-> ""]

\* the form cleared in the finally block
FormAfterFailureCleared == [recipient |-> "", amount |-> ""]

\* the two inputs after the catch and finally blocks
FormAfterFailure == [recipient |-> recipient, amount |-> amount]

\* the catch block showing a message of its own
CaughtMessageGeneric(msg) == "Transfer failed"

\* what catch (err) { setError(err.message) } puts in the error slot
CaughtMessage(msg) == msg

\* tx.wait() left out: the refresh follows the submission at once
NextCallNoWait(pc) ==
    CASE pc = "getSigner" -> "decimals"
      [] pc = "decimals" -> "transfer"
      [] pc = "transfer" -> "refresh"
      [] OTHER -> "none"

\* the call the try block of handleTransfer issues once the call pc has
\* returned ("refresh" is await fetchBalances())
NextCall(pc) ==
    CASE pc = "getSigner" -> "decimals"
      [] pc = "decimals" -> "transfer"
      [] pc = "transfer" -> "wait"
      [] pc = "wait" -> "refresh"
      [] OTHER -> "none"

\* catch (err) { setError(err.message) } finally { setLoading(false) }; msg
\* is the message of the error thrown
TransferFails(t, rest, msg, step) ==
    /\ error' = CaughtMessage(msg)
    /\ loading' = FALSE
    /\ recipient' = FormAfterFailure.recipient
    /\ amount' = FormAfterFailure.amount
    /\ transfers' = rest
    /\ last' = [op |-> "handleTransfer", invoked |-> 0, step |-> step,
                result |-> "failed", calls |-> <<>>,
                refreshCalls |-> t.refreshCalls, thrown |-> msg,
                trace |-> t.trace,
                form |-> [recipient |-> t.recipient, amount |-> t.amount]]
    /\ UNCHANGED <<bnbBalance, usdtBalance>>

\* fetchBalances has returned: clear the form, then finally
TransferSucceeds(t, rest, calls, step) ==
    /\ loading' = FALSE
    /\ recipient' = FormAfterSuccess.recipient
    /\ amount' = FormAfterSuccess.amount
    /\ transfers' = rest
    /\ last' = [op |-> "handleTransfer", invoked |-> 0,
                step |-> step, result |-> "ok",
                calls |-> calls, refreshCalls |-> t.refreshCalls,
                refreshFailed |-> t.refreshFailed,
                trace |-> Append(t.trace, "clear")]

\* the attempt goes on to its next await, having issued calls
TransferGoesOn(i, t, calls, step) ==
    /\ transfers' = [transfers EXCEPT ![i] = t]
    /\ last' = [op |-> "handleTransfer",
                invoked |-> t.refreshCalls - transfers[i].refreshCalls,
                step |-> step,
                result |-> "pending", calls |-> calls,
                refreshCalls |-> t.refreshCalls, trace |-> t.trace]
    /\ UNCHANGED <<loading, recipient, amount>>

\* the render handleTransfer was created in, as its fetchBalances sees it
ClosureOf(t) == [connected |-> TRUE, provider |-> TRUE, account |-> t.account]

\* the call that returned was step: the attempt issues the next call, up to
\* its next await (of fetchBalances() also when its guard fails and the call
\* has returned already)
Advance(i, t, step) ==
    IF NextCall(step) = "refresh"
    THEN LET f == fetchBalances(ClosureOf(t))
         IN TransferGoesOn(i, [t EXCEPT !.pc = "refresh", !.fetch = f,
                                        !.refreshCalls = @ + 1,
                                        !.trace = Append(@, "fetchBalances")],
                           StartCalls(f), step)
    ELSE TransferGoesOn(i, [t EXCEPT !.pc = NextCall(step),
                                     !.trace = Append(@, NextCall(step))],
                        <<NextCall(step)>>, step)

\* onClick of the submit button
handleTransfer ==
    /\ session.connected
    /\ ~SubmitDisabled
    /\ Len(transfers) < MaxTransfers
    /\ LET t == [pc |-> "getSigner", recipient |-> recipient,
                 amount |-> amount, account |-> session.account,
                 refreshCalls |-> 0, fetch |-> NoFetch,
                 refreshFailed |-> FALSE, trace |-> <<"getSigner">>]
       IN IF ~ValidInput(recipient, amount)
          THEN /\ error' = MsgValidation
               /\ last' = [op |-> "handleTransfer", invoked |-> 0,
                           step |-> "click",
                           result |-> "invalid", calls |-> <<>>,
                           refreshCalls |-> 0, trace |-> <<>>]
               /\ UNCHANGED <<loading, recipient, amount, transfers>>
          ELSE IF variant = "modal" /\ ~session.provider
          THEN /\ error' = MsgNoWallet
               /\ last' = [op |-> "handleTransfer", invoked |-> 0,
                           step |-> "click",
                           result |-> "nowallet", calls |-> <<>>,
                           refreshCalls |-> 0, trace |-> <<>>]
               /\ UNCHANGED <<loading, recipient, amount, transfers>>
          ELSE IF ~session.provider
          THEN \* new ethers.BrowserProvider(undefined) throws
               /\ TransferFails([t EXCEPT !.trace = <<>>], transfers,
                                MsgInvalidProvider, "click")
          ELSE /\ loading' = TRUE
               /\ error' = ""
               /\ transfers' = Append(transfers, t)
               /\ last' = [op |-> "handleTransfer", invoked |-> 0,
                           step |-> "click",
                           result |-> "pending", calls |-> <<"getSigner">>,
                           refreshCalls |-> 0, trace |-> t.trace]
               /\ UNCHANGED <<recipient, amount>>
    /\ UNCHANGED <<reports, variant, sdk, tokenDecimals, session, modalOpen, bnbBalance,
                   usdtBalance, sw, fetches>>

\* await ethersProvider.getSigner() settles
getSignerSettled ==
    \E i \in 1..Len(transfers) :
        LET t == transfers[i]
        IN /\ t.pc = "getSigner"
           /\ \/ /\ Advance(i, t, "getSigner")
                 /\ UNCHANGED error
              \/ \E msg \in RejectMsgs :
                    TransferFails(t, Remove(transfers, i), msg, "getSigner")
           /\ UNCHANGED <<reports, variant, sdk, tokenDecimals, session, modalOpen,
                          bnbBalance, usdtBalance, sw, fetches>>

\* await usdtContract.decimals() settles, then parseUnits and transfer(...)
decimalsSettled ==
    \E i \in 1..Len(transfers) :
        LET t == transfers[i]
            transferAmount == ParseUnits(t.amount, tokenDecimals)
        IN /\ t.pc = "decimals"
           /\ \/ IF transferAmount.ok
                 THEN /\ Advance(i, t, "decimals")
                      /\ UNCHANGED error
                 ELSE TransferFails(t, Remove(transfers, i),
                                    transferAmount.message, "decimals")
              \/ \E msg \in RejectMsgs :
                    TransferFails(t, Remove(transfers, i), msg, "decimals")
           /\ UNCHANGED <<reports, variant, sdk, tokenDecimals, session, modalOpen,
                          bnbBalance, usdtBalance, sw, fetches>>

\* await usdtContract.transfer(recipient, transferAmount) settles
transferSettled ==
    \E i \in 1..Len(transfers) :
        LET t == transfers[i]
        IN /\ t.pc = "transfer"
           /\ \/ /\ Advance(i, t, "transfer")
                 /\ UNCHANGED error
              \/ \E msg \in RejectMsgs :
                    TransferFails(t, Remove(transfers, i), msg, "transfer")
           /\ UNCHANGED <<reports, variant, sdk, tokenDecimals, session, modalOpen,
                          bnbBalance, usdtBalance, sw, fetches>>

\* await tx.wait() settles, then fetchBalances()
waitSettled ==
    \E i \in 1..Len(transfers) :
        LET t == transfers[i]
        IN /\ t.pc = "wait"
           /\ \/ /\ Advance(i, t, "wait")
                 /\ UNCHANGED error
              \/ \E msg \in RejectMsgs :
                    TransferFails(t, Remove(transfers, i), msg, "wait")
           /\ UNCHANGED <<reports, variant, sdk, tokenDecimals, session, modalOpen,
                          bnbBalance, usdtBalance, sw, fetches>>

\* a read of the fetchBalances call awaited by handleTransfer settles:
\* fetchBalances goes on to its next read or ends
refreshSettled ==
    \E i \in 1..Len(transfers), ok \in BOOLEAN :
        LET t == transfers[i]
            o == FetchOutcome(t.fetch, ok)
        IN /\ t.pc = "refresh"
           /\ t.fetch.pc # "none"
           /\ bnbBalance' = o.bnb
           /\ usdtBalance' = o.usdt
           /\ error' = o.error
           /\ TransferGoesOn(i, [t EXCEPT !.fetch = o.f,
                                          !.refreshFailed = ~ok],
                             o.calls, "refresh")
           /\ UNCHANGED <<reports, variant, sdk, tokenDecimals, session, modalOpen, sw,
                          fetches>>

\* await fetchBalances() resumes in handleTransfer once the call has ended:
\* clear the form, then finally
refreshReturned ==
    \E i \in 1..Len(transfers) :
        LET t == transfers[i]
        IN /\ t.pc = "refresh"
           /\ t.fetch.pc = "none"
           /\ TransferSucceeds(t, Remove(transfers, i), <<>>, "refresh")
           /\ UNCHANGED <<reports, variant, sdk, tokenDecimals, session, modalOpen,
                          bnbBalance, usdtBalance, error, sw, fetches>>

(***************************************************************************)
(* The component as the user and the wallet drive it.                      *)
(***************************************************************************)
Next ==
    \/ SessionChange
    \/ FetchStep
    \/ EditRecipient
    \/ EditAmount
    \/ connect
    \/ sdkConnectResolved
    \/ sdkConnectRejected
    \/ switchResolved
    \/ switchRejected
    \/ addResolved
    \/ addRejected
    \/ switchSkipped
    \/ connectFinally
    \/ open
    \/ openRejected
    \/ modalConnected
    \/ modalClosed
    \/ handleTransfer
    \/ getSignerSettled
    \/ decimalsSettled
    \/ transferSettled
    \/ waitSettled
    \/ refreshSettled
    \/ refreshReturned

Spec == Init /\ [][Next]_vars

\* a call awaited by connect (switchToBNBChain included) returns or throws
ConnectReturns ==
    \/ sdkConnectResolved
    \/ sdkConnectRejected
    \/ switchResolved
    \/ switchRejected
    \/ addResolved
    \/ addRejected
    \/ switchSkipped
    \/ connectFinally

\* a call awaited by handleTransfer returns or throws
TransferReturns ==
    \/ getSignerSettled
    \/ decimalsSettled
    \/ transferSettled
    \/ waitSettled
    \/ refreshSettled
    \/ refreshReturned

\* the component with the reads of the effect's fetchBalances calls left
\* unanswered: they are not calls of a connect or of a transfer attempt, and
\* their continuations write only the balances and the error slot, which no
\* step of connect or handleTransfer reads
NextLive ==
    \/ SessionChange
    \/ EditRecipient
    \/ EditAmount
    \/ connect
    \/ open
    \/ openRejected
    \/ modalConnected
    \/ modalClosed
    \/ handleTransfer
    \/ ConnectReturns
    \/ TransferReturns

\* with a wallet and a chain that answer every call of an attempt: a pending
\* promise is eventually settled and its continuation run by the event loop
SpecLive ==
    /\ Init
    /\ [][NextLive]_vars
    /\ WF_vars(ConnectReturns)
    /\ WF_vars(TransferReturns)

TypeOK ==
    /\ loading \in BOOLEAN
    /\ recipient \in Recipients
    /\ amount \in Amounts
    /\ Len(transfers) <= MaxTransfers
    /\ reports \in 0..MaxReports
    /\ Len(fetches) <= MaxReports + 2
    /\ sw.pc \in {"idle", "sdkConnect", "noProvider", "switch", "add",
                  "returned"}

(***************************************************************************)
(* Properties.                                                             *)
(***************************************************************************)
Range(seq) == {seq[i] : i \in 1..Len(seq)}

IsClick == last.op = "handleTransfer" /\ last.step = "click"

\* C1: a handleTransfer call made with recipient or amount empty issues no
\* wallet or contract call, leaves the validation message in the error slot,
\* starts no attempt, and leaves loading, recipient, amount and both balances
\* as they were.
C1_EmptyInputRejected ==
    [][(/\ last'.op = "handleTransfer"
        /\ last'.step = "click"
        /\ (recipient = "" \/ amount = ""))
       => (/\ last'.result = "invalid"
           /\ last'.calls = <<>>
           /\ error' = MsgValidation
           /\ UNCHANGED <<loading, recipient, amount, bnbBalance, usdtBalance,
                          transfers, fetches>>)]_vars

\* C1 witness: submitted with a recipient and no amount
C1_Witness ==
    /\ IsClick
    /\ last.result = "invalid"
    /\ recipient # ""
    /\ amount = ""
    /\ error = MsgValidation

\* C2: at most one transfer attempt is in flight, and while it is the submit
\* control is disabled, so no second submission begins before it finishes.
C2_SingleTransferInFlight ==
    /\ Len(transfers) <= 1
    /\ transfers # <<>> => loading

\* C2 witness: an attempt awaits its confirmation while the form holds a
\* valid input that a second click would submit
C2_Witness ==
    /\ Len(transfers) = 1
    /\ transfers[1].pc = "wait"
    /\ session.connected
    /\ session.provider
    /\ ValidInput(recipient, amount)

\* C3: when an attempt whose getSigner, decimals, transfer and wait all
\* succeeded finishes, recipient and amount are empty and the attempt has
\* called fetchBalances exactly once (its calls are counted as they are
\* made); nothing after the confirmation, the refresh included, makes the
\* attempt fail.
C3_SuccessClearsForm ==
    /\ (last.op = "handleTransfer" /\ last.result = "ok")
       => (/\ recipient = ""
           /\ amount = ""
           /\ last.refreshCalls = 1)
    /\ (last.op = "handleTransfer" /\ last.step = "refresh")
       => (last.result # "failed" /\ last.refreshCalls = 1)

\* C3 witness: an attempt finished successfully after its refresh wrote the
\* token balance
C3_Witness ==
    /\ last.op = "handleTransfer"
    /\ last.step = "refresh"
    /\ last.result = "ok"
    /\ usdtBalance # "0"

\* C4 (as claimed): when a transfer attempt fails, recipient and amount hold
\* the values they had when the attempt started.
C4_FormAsAtStart ==
    (last.op = "handleTransfer" /\ last.result = "failed")
    => (recipient = last.form.recipient /\ amount = last.form.amount)

\* C4 (amended): no step of a transfer attempt other than its successful
\* completion changes recipient or amount (only the user's edits, which the
\* inputs accept during the attempt, do); an attempt that fails has called
\* fetchBalances zero times and its failing step starts no balance read.
C4_FailureKeepsForm ==
    [][/\ (last'.op = "handleTransfer" /\ last'.result # "ok")
          => (recipient' = recipient /\ amount' = amount)
       /\ (last'.op = "handleTransfer" /\ last'.result = "failed")
          => (/\ last'.refreshCalls = 0
              /\ last'.calls = <<>>
              /\ fetches' = fetches)
       /\ (recipient' # recipient \/ amount' # amount)
          => last'.op \in {"edit", "handleTransfer"}]_vars

\* C4 witness: the confirmation wait failed with the form filled in
C4_Witness ==
    /\ last.op = "handleTransfer"
    /\ last.step = "wait"
    /\ last.result = "failed"
    /\ recipient # ""
    /\ amount # ""

\* C5: a switchToBNBChain call whose switch request failed with code 4902 has
\* issued the switch request and then exactly one wallet_addEthereumChain
\* request with the fixed BSC descriptor, and nothing else.
C5_UnrecognizedChainAddsOnce ==
    (last.op = "switchToBNBChain" /\ last.code = 4902)
    => /\ Len(last.reqs) = 2
       /\ last.reqs[1].method = "wallet_switchEthereumChain"
       /\ last.reqs[2] =
            [method |-> "wallet_addEthereumChain",
             params |-> <<[chainId |-> "0x38",
                           chainName |-> "BNB Smart Chain",
                           nativeCurrency |-> [name |-> "BNB",
                                               symbol |-> "BNB",
                                               decimals |-> 18],
                           rpcUrls |-> <<"https://bsc-dataseed.binance.org/">>,
                           blockExplorerUrls |-> <<"https://bscscan.com/">>]>>]
       /\ last.result \in {"ok", "addFailed"}
          => (sw.pc \notin {"switch", "add"} /\ \A m \in Range(last.calls) :
                 m \notin {"wallet_switchEthereumChain",
                           "wallet_addEthereumChain"})

\* C5 witness: the registration went through after a 4902 failure
C5_Witness ==
    /\ last.op = "switchToBNBChain"
    /\ last.code = 4902
    /\ last.result = "ok"

\* C6 (as claimed): a fetchBalances call that fails leaves 'Failed to fetch
\* balances' in the error slot and has changed neither displayed balance.
C6_FailedFetchKeepsBalances ==
    (last.op = "fetchBalances" /\ last.result = "failed")
    => (error = MsgFetch /\ ~last.wrote)

\* C7 (as claimed): the step that starts a connect, a fetchBalances or a
\* validated handleTransfer attempt leaves the error slot empty.
C7_ErrorClearedAtStart ==
    /\ (last.op = "connect" /\ last.result = "pending") => error = ""
    /\ (IsClick /\ last.result = "pending") => error = ""
    /\ "getBalance" \in Range(last.calls) => error = ""

\* C8 (as claimed): when a connect made through the connect control has
\* established the session and the connect flow is over, a
\* wallet_switchEthereumChain request for chain 0x38 has been issued.
C8_ConnectRequestsSwitch ==
    /\ (last.op = "open" /\ last.result = "connected")
       => SwitchRequest \in Range(last.reqs)
    /\ (/\ last.op = "switchToBNBChain"
        /\ last.caller = "connect"
        /\ last.established
        /\ last.result # "pending")
       => SwitchRequest \in Range(last.reqs)

\* C9 (as claimed): a handleTransfer call with recipient and amount filled in
\* and no provider handle ends with a generic validation message, no wallet
\* or contract call, and loading false.
C9_NoProviderRejected ==
    (IsClick /\ ~session.provider /\ ValidInput(recipient, amount))
    => (/\ error \in {MsgValidation, MsgNoWallet}
        /\ last.calls = <<>>
        /\ ~loading
        /\ transfers = <<>>)

\* C10: in switchToBNBChain a switch request failing with a code other than
\* 4902 leaves 'Failed to switch network' and issues no registration request;
\* a failing registration request leaves 'Failed to add BSC network'; an
\* attempt issues at most one switch and one registration request; and the
\* failure does not reach the caller's catch block (switchToBNBChain has
\* returned to connect, which resumes after its await and only resets
\* loading).
C10_SwitchFailuresTerminal ==
    /\ last.op = "switchToBNBChain"
       => /\ last.code \notin {0, 4902} => last.result = "switchFailed"
          /\ last.result = "switchFailed"
             => (/\ error = MsgSwitch
                 /\ last.reqs = <<SwitchRequest>>
                 /\ sw.pc \notin {"switch", "add"})
          /\ last.result = "addFailed"
             => (error = MsgAdd /\ sw.pc \notin {"switch", "add"})
          /\ Len(last.reqs) <= 2
          /\ \A i, j \in 1..Len(last.reqs) :
                last.reqs[i].method = last.reqs[j].method => i = j
          /\ (last.result \in {"switchFailed", "addFailed"}
              /\ last.caller = "connect") => sw.pc = "returned"
    /\ (last.op = "connect" /\ last.result = "done")
       => (~loading /\ sw = IdleSw)

\* C10 witness: connect's switch request was refused with another code
C10_Witness ==
    /\ last.op = "switchToBNBChain"
    /\ last.result = "switchFailed"
    /\ last.code = 4001
    /\ last.caller = "connect"
    /\ error = MsgSwitch

\* C11: when a step of a validated transfer attempt throws, handleTransfer
\* ends in that step with the error slot holding the message of the error
\* thrown (the wallet's or RPC layer's rejection, or the library's own
\* complaint about the provider or the amount), never one of the component's
\* generic messages, and the attempt has no later step that could overwrite
\* it.
C11_TransferErrorVerbatim ==
    (last.op = "handleTransfer" /\ last.result = "failed")
    => /\ error = last.thrown
       /\ error \in RejectMsgs \cup {MsgInvalidProvider, MsgInvalidNumber,
                                      MsgTooManyDecimals}
       /\ error \notin {"", MsgValidation, MsgNoWallet, MsgFetch, MsgSwitch,
                         MsgAdd}
       /\ error = MsgInvalidProvider => last.step = "click"
       /\ error \in {MsgInvalidNumber, MsgTooManyDecimals}
          => last.step = "decimals"
       /\ transfers = <<>>
       /\ ~loading

\* C11 witness: the wallet refused the transfer call
C11_Witness ==
    /\ last.op = "handleTransfer"
    /\ last.step = "transfer"
    /\ last.result = "failed"
    /\ error = "user rejected action"

\* the session as fetchBalances requires it
SessionReady ==
    session.connected /\ session.account # NoAccount /\ session.provider

\* C12 (as claimed): a step that calls fetchBalances (the effect after a
\* render, or handleTransfer once tx.wait() has returned) while the session
\* is not connected, or has no account, or has no provider handle, starts no
\* chain read and leaves both balances and the error slot as they were.
C12_FetchGuardNoOp ==
    [][(last'.invoked > 0 /\ ~SessionReady')
       => (/\ "getBalance" \notin Range(last'.calls)
           /\ UNCHANGED <<bnbBalance, usdtBalance, error, fetches>>)]_vars

\* the guard as the call itself sees it: fetchBalances reads connected,
\* account and provider of the render it was created in, and a call made from
\* a render that lacks one of them starts no read
FetchGuardInClosure ==
    /\ (last.op = "handleTransfer" /\ "getBalance" \in Range(last.calls))
       => (transfers # <<>> /\ transfers[1].account # NoAccount)
    /\ (last.op # "handleTransfer" /\ "getBalance" \in Range(last.calls))
       => SessionReady

\* C13 (as claimed): a step in which connected, the account or the chain id
\* changes and that leaves the session connected with an account starts one
\* balance fetch, and the step in which tx.wait() returns successfully starts
\* one more.
C13_EveryChangeFetches ==
    [][/\ (/\ session'.connected
           /\ session'.account # NoAccount
           /\ \/ session'.connected # session.connected
              \/ session'.account # session.account
              \/ session'.chainId # session.chainId)
          => (/\ Len(fetches') = Len(fetches) + 1
              /\ "getBalance" \in Range(last'.calls))
       /\ (/\ last'.op = "handleTransfer"
           /\ last'.step = "wait"
           /\ last'.result # "failed")
          => "getBalance" \in Range(last'.calls)]_vars

\* C13 (amended): a step in which connected, the account or the chain id
\* changes and that leaves the session connected with an account calls
\* fetchBalances once, and the call starts exactly one fetch when the
\* provider handle is there and none when it is not; a change that leaves
\* the session disconnected or without an account calls it zero times and
\* starts none; the step in which tx.wait() returns successfully calls it
\* once, and that call starts a fetch exactly when the render the submit was
\* clicked in had an account; and no other step calls it.
C13_FetchTriggers ==
    [][/\ (session' # session)
          => last'.invoked =
               (IF /\ session'.connected
                   /\ session'.account # NoAccount
                   /\ \/ session'.connected # session.connected
                      \/ session'.account # session.account
                      \/ session'.chainId # session.chainId
                THEN 1 ELSE 0)
       /\ (session' # session /\ last'.invoked = 1 /\ session'.provider)
          => (/\ Len(fetches') = Len(fetches) + 1
              /\ Cardinality({i \in 1..Len(last'.calls) :
                                 last'.calls[i] = "getBalance"}) = 1)
       /\ (session' # session /\ last'.invoked = 1 /\ ~session'.provider)
          => (fetches' = fetches /\ "getBalance" \notin Range(last'.calls))
       /\ (session' # session /\ last'.invoked = 0)
          => (fetches' = fetches /\ "getBalance" \notin Range(last'.calls))
       /\ (last'.op = "handleTransfer" /\ last'.invoked = 1)
          => (/\ transfers' # <<>>
              /\ "getBalance" \in Range(last'.calls)
                    <=> transfers'[1].account # NoAccount)
       /\ (last'.op = "handleTransfer" /\ session' = session)
          => last'.invoked =
               (IF last'.step = "wait" /\ last'.result # "failed"
                THEN 1 ELSE 0)
       /\ (last'.op = "handleTransfer" /\ last'.result = "ok")
          => last'.refreshCalls = 1
       /\ last'.invoked > 0
          => (session' # session \/ last'.op = "handleTransfer")]_vars

\* C13 witness: the session changed after balances had been shown, and the
\* effect started a fetch for the new session
C13_Witness ==
    /\ last.op = "session"
    /\ last.invoked = 1
    /\ last.calls = <<"getBalance">>
    /\ Len(fetches) = 1
    /\ usdtBalance # "0"

\* the step in which a connect made through the connect button fails: the
\* connector's call rejects, or the dialog is closed with no session
ConnectFailed ==
    \/ last.op = "connect" /\ last.result = "failed"
    \/ last.op = "open" /\ last.result \in {"failed", "closed"}

\* C14 (as claimed): the step in which the connect operation fails leaves a
\* non-empty message in the error slot and loading false, issues no switch
\* request and no balance read, calls fetchBalances zero times and leaves the
\* session as it was.
C14_ConnectFailureShown ==
    [][ConnectFailed'
       => (/\ error' # ""
           /\ loading' = FALSE
           /\ session' = session
           /\ fetches' = fetches
           /\ last'.invoked = 0
           /\ sw'.reqs = <<>>
           /\ \A c \in Range(last'.calls) :
                 c \notin {"getBalance", SwitchRequest.method,
                           AddRequest.method})]_vars

\* the same, of the connect handler of variant "sdk" alone
ConnectRejectionCaught ==
    [][(last'.op = "connect" /\ last'.result = "failed")
       => (/\ error' \in RejectMsgs
           /\ loading' = FALSE
           /\ session' = session
           /\ fetches' = fetches
           /\ sw' = IdleSw
           /\ last'.calls = <<>>)]_vars

\* the steps of a transfer attempt in the order the claim gives them
TransferOrder ==
    <<"getSigner", "decimals", "transfer", "wait", "fetchBalances", "clear">>

IsPrefix(a, b) == Len(a) <= Len(b) /\ SubSeq(b, 1, Len(a)) = a

\* the entry of TransferOrder the call awaited at pc stands for
OrderName(pc) == IF pc = "refresh" THEN "fetchBalances" ELSE pc

\* C15: the calls an attempt has issued so far are, in order, a prefix of
\* getSigner, decimals, transfer, wait, fetchBalances, clear-the-form: each
\* call is issued in the step in which the one before it returned
\* successfully, the form is cleared only in the step in which the attempt
\* resumes after fetchBalances has ended, and the step in which a call fails
\* issues nothing and ends the attempt.
C15_TransferStepsOrdered ==
    /\ \A i \in 1..Len(transfers) :
          /\ IsPrefix(transfers[i].trace, TransferOrder)
          /\ transfers[i].trace # <<>>
          /\ transfers[i].trace[Len(transfers[i].trace)]
               = OrderName(transfers[i].pc)
    /\ last.op = "handleTransfer"
       => /\ IsPrefix(last.trace, TransferOrder)
          /\ (last.result = "pending" /\ last.step # "click"
              /\ last.step # "refresh")
             => (/\ Len(last.trace) >= 2
                 /\ last.trace[Len(last.trace) - 1] = last.step
                 /\ last.step # "wait" => last.calls # <<>>)
          /\ last.result = "ok"
             => (/\ last.trace = TransferOrder
                 /\ last.step = "refresh"
                 /\ last.calls = <<>>
                 /\ recipient = "" /\ amount = "")
          /\ last.result = "failed"
             => (/\ last.calls = <<>>
                 /\ last.refreshCalls = 0
                 /\ "clear" \notin Range(last.trace)
                 /\ IF last.step = "click" THEN last.trace = <<>>
                    ELSE last.trace[Len(last.trace)] = last.step
                 /\ \A i \in 1..Len(transfers) :
                       transfers[i].trace # last.trace)

\* C15 witness: an attempt went through all its steps, its refresh reading
\* the chain
C15_Witness ==
    /\ last.op = "handleTransfer"
    /\ last.result = "ok"
    /\ last.step = "refresh"
    /\ last.trace = TransferOrder

\* a connect or a transfer attempt has started and not reached the end of
\* its finally block
AttemptInFlight ==
    \/ transfers # <<>>
    \/ sw.pc # "idle" /\ sw.caller = "connect"

\* loading is true exactly while an attempt is under way, whatever the
\* effect's fetches do meanwhile
LoadingWhileInFlight == loading <=> AttemptInFlight

\* C16: loading is true exactly while a connect or a transfer attempt is
\* under way (so it is true from the start of the attempt to its completion,
\* and stays true only because a call has not returned yet), and
\* when every awaited call returns, with a result or an error, loading true
\* leads to loading false.
C16_LoadingLifecycle ==
    /\ [](loading <=> AttemptInFlight)
    /\ (loading ~> ~loading)

\* C16 witness: the confirmation wait of an attempt threw and the finally
\* block reset loading
C16_Witness ==
    /\ last.op = "handleTransfer"
    /\ last.step = "wait"
    /\ last.result = "failed"
    /\ ~loading
    /\ ~AttemptInFlight

\* the display shows the balances of account a
Shows(a) ==
    /\ bnbBalance = FormatEther(NativeOf(a))
    /\ usdtBalance = FormatUnits(TokenOf(a), tokenDecimals)

\* C17 (as claimed): while the session is connected and the display shows
\* the balances of its current account, the response to a read of a
\* fetchBalances call started for another account changes neither displayed
\* balance.
C17_NoStaleOverwrite ==
    [][(/\ last'.op = "fetchBalances"
        /\ session.connected
        /\ session.account # NoAccount
        /\ last'.account # session.account
        /\ Shows(session.account))
       => UNCHANGED <<bnbBalance, usdtBalance>>]_vars

\* C18 (as claimed): the step of handleTransfer that issues the token
\* transfer call is taken only while the session reports chain id 56.
C18_TransferOnlyOnBsc ==
    (last.op = "handleTransfer" /\ "transfer" \in Range(last.calls))
    => session.chainId = 56

\* C19: when the refresh of a confirmed transfer fails, handleTransfer still
\* ends as a success once it resumes: the failure does not reach its catch
\* block, recipient and amount are empty, loading is false, the attempt is
\* over and the error slot holds 'Failed to fetch balances'.
C19_FailedRefreshStillSuccess ==
    /\ (last.op = "handleTransfer" /\ last.step = "refresh")
       => last.result \in {"pending", "ok"}
    /\ (/\ last.op = "handleTransfer"
        /\ last.result = "ok"
        /\ last.refreshFailed)
       => (/\ last.step = "refresh"
           /\ recipient = ""
           /\ amount = ""
           /\ ~loading
           /\ transfers = <<>>
           /\ error = "Failed to fetch balances"
           /\ last.trace[4] = "wait")

\* C19 witness: the balanceOf read of the refresh threw after the native
\* balance had been refreshed
C19_Witness ==
    /\ last.op = "handleTransfer"
    /\ last.result = "ok"
    /\ last.refreshFailed
    /\ error = MsgFetch
    /\ recipient = ""
    /\ bnbBalance # "0"

\* the connect button is never enabled while a connect call is in flight
ConnectGuardSound == (variant = "sdk" /\ ConnectEnabled) => sw.pc = "idle"

====
